---- MODULE Spec2Model ----
(***************************************************************************)
(* State-machine model of catsim.cat.simulate.simCAT: the CAT simulation   *)
(* driver with its item selector, exposure check, substitution loop,       *)
(* response simulation, ability re-estimation and result records.          *)
(*                                                                         *)
(* Abilities and difficulties are fixed-point integers in units of 1/Unit, *)
(* Unit a power of two large enough that every halving done by dodd() in   *)
(* one test is exact.  Exposure caps are exact fractions <<num, den>>.      *)
(* The run is modelled with verbose=False.                                 *)
(***************************************************************************)
EXTENDS Integers, Sequences, FiniteSets, TLC

\* ---------------------------------------------------------------- bounds
MaxBank == 2
MaxExaminees == 2
MaxItens == 2
MaxCaps == 2
MaxCluster == 2
\* total number of SELECT/RESPOND/REESTIMATE rounds of one run
MaxRounds == 4
\* largest ability, in whole units, dodd() is applied to on its own
MaxAbsTheta == 6

\* selected_item = None (simulate.py:49)
None == 0 - 1

Unit == 2 ^ (MaxItens + 1)

\* values the draws of the random sources and of the optimizer range over
InitThetas == {Unit}
TrueThetas == {0}
MLEThetas == {0}
BValues == {(0 - 2) * Unit, 3 * Unit}
AValues == {1, 2}

VARIABLES
    bank_size,              \* np.size(items, 0)
    items_a,                \* items[:, 0], the discrimination column
    items_b,                \* items[:, 1], the difficulty column
    items_exp,              \* items[:, 3], the exposure column appended at line 21
    clusters,               \* cluster id of every bank index
    examinees, n_itens, r_max_interval,
    true_thetas,
    v, e, q,                \* positions of the three nested loops
    est_theta, administered_items, response_vector,
    selected_item, counter, selected_item_cluster, acertou,
    idLists,                \* the id_itens list objects, one per started cap
    localResults, globalResults,
    reest_call,             \* the re-estimation call made last (line 96 or 99)
    pc

inputs == <<bank_size, items_a, items_b, clusters, examinees, n_itens,
            r_max_interval, true_thetas>>
vars == <<bank_size, items_a, items_b, items_exp, clusters, examinees, n_itens,
          r_max_interval, true_thetas, v, e, q, est_theta, administered_items,
          response_vector, selected_item, counter, selected_item_cluster,
          acertou, idLists, localResults, globalResults, reest_call, pc>>

\* ------------------------------------------------------------- helpers
Bank == 0 .. (bank_size - 1)

InSeq(x, s) == \E k \in 1 .. Len(s) : s[k] = x

\* r_maxes = np.linspace(0.1, 1, r_max_interval)[w] as an exact fraction
RMaxOf(w) ==
    IF r_max_interval = 1 THEN <<1, 10>>
    ELSE <<(r_max_interval - 1) + 9 * w, 10 * (r_max_interval - 1)>>

r_max == RMaxOf(v)

\* the side of the ability scale a value lies on
ThetaClass(theta) == IF theta < 0 THEN 0 ELSE 1

\* catsim.cat.irt.inf(theta, a, b, c): Fisher information, a pure function
\* with values >= 0 that grows with the discrimination a and decays away
\* from the difficulty b, down to 0
inf(theta, a, b) == IF ThetaClass(theta) = ThetaClass(b) THEN a ELSE a \div 2

\* the for-loop of lines 51-55 without the test on administered_items
RECURSIVE ScanFrom_NoAdministeredTest(_, _, _, _, _)
ScanFrom_NoAdministeredTest(c, sel, max_inf, theta, adm) ==
    IF c >= bank_size THEN sel
    ELSE IF inf(theta, items_a[c], items_b[c]) > max_inf
         THEN ScanFrom_NoAdministeredTest(c + 1, c, max_inf, theta, adm)
         ELSE ScanFrom_NoAdministeredTest(c + 1, sel, max_inf, theta, adm)

\* the for-loop of lines 51-55, from index c on, with the running selection
RECURSIVE ScanFrom(_, _, _, _, _)
ScanFrom(c, sel, max_inf, theta, adm) ==
    IF c >= bank_size THEN sel
    ELSE IF ~InSeq(c, adm) /\ inf(theta, items_a[c], items_b[c]) > max_inf
         THEN ScanFrom(c + 1, c, max_inf, theta, adm)
         ELSE ScanFrom(c + 1, sel, max_inf, theta, adm)

\* lines 49-55: selected_item after the scan
ScanPick(theta, adm) == ScanFrom(0, None, 0, theta, adm)

\* lines 62-63: the condition under which the substitution loop is entered
EntersSubstitution(cnt, r) ==
    cnt = 0 \/ (cnt # 0 /\ bank_size * r[2] >= r[1] * cnt)

\* the test of lines 68-71 without its second conjunct
AcceptsSample_NoAdministeredTest(random_item, cluster, adm) ==
    cluster = clusters[random_item]

\* the test of lines 68-71 without its first conjunct
AcceptsSample_NoClusterTest(random_item, cluster, adm) ==
    ~InSeq(random_item, adm)

\* the test of lines 68-71 asking in addition for an item other than the pick
AcceptsSample_OtherItemOnly(random_item, cluster, adm) ==
    /\ cluster = clusters[random_item]
    /\ ~InSeq(random_item, adm)
    /\ random_item # selected_item

\* lines 68-71: the test a sampled index has to pass
AcceptsSample(random_item, cluster, adm) ==
    cluster = clusters[random_item] /\ ~InSeq(random_item, adm)

\* the test of line 95 comparing the latest response with the one before it
Uniform_LastTwoOnly(rv) == Len(rv) <= 1 \/ rv[Len(rv)] = rv[Len(rv) - 1]

\* the test of line 95 taking only an all-correct history for uniform
Uniform_AllCorrectOnly(rv) == \A k \in 1 .. Len(rv) : rv[k]

\* line 95: all(response_vector[0] == response for response in response_vector)
Uniform(rv) == \A k \in 1 .. Len(rv) : rv[1] = rv[k]

RECURSIVE MaxOf(_)
MaxOf(S) == LET x == CHOOSE y \in S : TRUE
            IN IF S = {x} THEN x
               ELSE LET m == MaxOf(S \ {x}) IN IF x > m THEN x ELSE m

RECURSIVE MinOf(_)
MinOf(S) == LET x == CHOOSE y \in S : TRUE
            IN IF S = {x} THEN x
               ELSE LET m == MinOf(S \ {x}) IN IF x < m THEN x ELSE m

\* dodd() moving towards the wrong difficulty bound
dodd_SwappedBounds(theta, b, correct) ==
    LET b_max == MaxOf({b[i] : i \in DOMAIN b})
        b_min == MinOf({b[i] : i \in DOMAIN b})
    IN IF correct THEN theta - ((theta - b_min) \div 2)
       ELSE theta + ((b_max - theta) \div 2)

\* lines 126-152
dodd(theta, b, correct) ==
    LET b_max == MaxOf({b[i] : i \in DOMAIN b})
        b_min == MinOf({b[i] : i \in DOMAIN b})
    IN IF correct THEN theta + ((b_max - theta) \div 2)
       ELSE theta - ((theta - b_min) \div 2)

RECURSIVE SumOver(_, _)
SumOver(f, S) == IF S = {} THEN 0
                 ELSE LET x == CHOOSE y \in S : TRUE
                      IN f[x] + SumOver(f, S \ {x})

\* lines 165-176, T = (bankSize/testSize)*var + testSize/bankSize as the
\* fraction <<numerator, denominator>> over the common denominator
overlap_rate(exp, testSize) ==
    LET bankSize == Cardinality(DOMAIN exp)
        s1 == SumOver(exp, DOMAIN exp)
        s2 == SumOver([i \in DOMAIN exp |-> exp[i] * exp[i]], DOMAIN exp)
    IN <<bankSize * s2 - s1 * s1 + testSize * testSize, testSize * bankSize>>

\* the id_itens list object of the cap being processed
id_itens == idLists[Len(idLists)]

\* what the 'Id. Itens' entry of a Simulation Record reads as
IdItensOf(rec) == idLists[rec.IdItens]

\* ---------------------------------------------------------------- Init
Init ==
    /\ bank_size \in 1 .. MaxBank
    /\ items_a \in [0 .. (bank_size - 1) -> AValues]
    /\ items_b \in [0 .. (bank_size - 1) -> BValues]
    /\ items_exp = [i \in 0 .. (bank_size - 1) |-> 0]
    /\ clusters \in [0 .. (bank_size - 1) -> 0 .. (MaxCluster - 1)]
    \* cluster ids are labels: they are numbered in order of first appearance
    /\ \A i \in 0 .. (bank_size - 1) : \A c \in 0 .. (clusters[i] - 1) :
           \E j \in 0 .. (i - 1) : clusters[j] = c
    /\ examinees \in 1 .. MaxExaminees
    /\ n_itens \in 1 .. MaxItens
    /\ r_max_interval \in 1 .. MaxCaps
    /\ examinees * n_itens * r_max_interval <= MaxRounds
    /\ true_thetas \in [1 .. examinees -> TrueThetas]
    /\ v = 0 /\ e = 0 /\ q = 0
    /\ est_theta = 0
    /\ administered_items = <<>>
    /\ response_vector = <<>>
    /\ selected_item = None
    /\ counter = None
    /\ selected_item_cluster = None
    /\ acertou = FALSE
    /\ idLists = <<>>
    /\ localResults = <<>>
    /\ globalResults = <<>>
    /\ reest_call = [fn |-> "none"]
    /\ pc = "cap"

\* ------------------------------------------------------------- actions
\* line 31, 34-35: the r_max loop takes its next value
StartCap ==
    /\ pc = "cap" /\ v < r_max_interval
    /\ idLists' = Append(idLists, <<>>)
    /\ e' = 0
    /\ pc' = "examinee"
    /\ UNCHANGED <<inputs, reest_call, items_exp, v, q, est_theta, administered_items,
                   response_vector, selected_item, counter,
                   selected_item_cluster, acertou, localResults, globalResults>>

\* line 123
Return ==
    /\ pc = "cap" /\ v >= r_max_interval
    /\ pc' = "done"
    /\ UNCHANGED <<inputs, reest_call, items_exp, v, e, q, est_theta, administered_items,
                   response_vector, selected_item, counter,
                   selected_item_cluster, acertou, idLists, localResults,
                   globalResults>>

\* lines 36-44
StartExaminee ==
    /\ pc = "examinee" /\ e < examinees
    /\ est_theta' \in InitThetas
    /\ administered_items' = <<>>
    /\ response_vector' = <<>>
    /\ q' = 0
    /\ pc' = "select"
    /\ UNCHANGED <<inputs, reest_call, items_exp, v, e, selected_item, counter,
                   selected_item_cluster, acertou, idLists, localResults,
                   globalResults>>

\* lines 116-120, then the next r_max
EmitAggregate ==
    /\ pc = "examinee" /\ e >= examinees
    /\ globalResults' = Append(globalResults,
                               [QtdItens |-> n_itens,
                                Overlap |-> overlap_rate(items_exp, n_itens),
                                r_max |-> r_max])
    /\ v' = v + 1
    /\ pc' = "cap"
    /\ UNCHANGED <<inputs, reest_call, items_exp, e, q, est_theta, administered_items,
                   response_vector, selected_item, counter,
                   selected_item_cluster, acertou, idLists, localResults>>

\* the scan with the round loop running one round too many
Scan_OneRoundMore ==
    /\ pc = "select" /\ q <= n_itens
    /\ selected_item' = ScanPick(est_theta, administered_items)
    /\ counter' = bank_size - 1
    /\ pc' = "check"
    /\ UNCHANGED <<inputs, reest_call, items_exp, v, e, q, est_theta, administered_items,
                   response_vector, selected_item_cluster, acertou, idLists,
                   localResults, globalResults>>

\* lines 46-55: SELECT, the scan over the bank
Scan ==
    /\ pc = "select" /\ q < n_itens
    /\ selected_item' = ScanPick(est_theta, administered_items)
    /\ counter' = bank_size - 1
    /\ pc' = "check"
    /\ UNCHANGED <<inputs, reest_call, items_exp, v, e, q, est_theta, administered_items,
                   response_vector, selected_item_cluster, acertou, idLists,
                   localResults, globalResults>>

\* lines 107-112
EmitRecord ==
    /\ pc = "select" /\ q >= n_itens
    /\ localResults' = Append(localResults,
                              [Theta |-> true_thetas[e + 1],
                               EstTheta |-> est_theta,
                               IdItens |-> Len(idLists),
                               r_max |-> r_max])
    /\ e' = e + 1
    /\ pc' = "examinee"
    /\ UNCHANGED <<inputs, reest_call, items_exp, v, q, est_theta, administered_items,
                   response_vector, selected_item, counter,
                   selected_item_cluster, acertou, idLists, globalResults>>

\* lines 62-65: the exposure check.  With selected_item = None, line 64
\* raises when clusters is a list; when it is an ndarray, clusters[None] is
\* the whole array with one more axis, and the comparison of line 69 raises
\* for a bank of two or more items and is the plain comparison with the
\* only cluster id for a bank of one item.
ExposureCheck ==
    /\ pc = "check"
    /\ IF EntersSubstitution(items_exp[counter], r_max)
       THEN IF selected_item = None
            THEN \E clusters_is_ndarray \in BOOLEAN :
                    IF clusters_is_ndarray /\ bank_size = 1
                    THEN /\ selected_item_cluster' = clusters[0]
                         /\ pc' = "sample"
                    ELSE /\ pc' = "error"
                         /\ UNCHANGED selected_item_cluster
            ELSE /\ selected_item_cluster' = clusters[selected_item]
                 /\ pc' = "sample"
       ELSE pc' = "respond" /\ UNCHANGED selected_item_cluster
    /\ UNCHANGED <<inputs, reest_call, items_exp, v, e, q, est_theta, administered_items,
                   response_vector, selected_item, counter, acertou, idLists,
                   localResults, globalResults>>

\* lines 66-74: one pass of the while loop with random_item drawn
Sample(random_item) ==
    /\ pc = "sample"
    /\ IF AcceptsSample(random_item, selected_item_cluster, administered_items)
       THEN selected_item' = random_item /\ pc' = "respond"
       ELSE UNCHANGED <<selected_item, pc>>
    /\ UNCHANGED <<inputs, reest_call, items_exp, v, e, q, est_theta, administered_items,
                   response_vector, counter, selected_item_cluster, acertou,
                   idLists, localResults, globalResults>>

\* RESPOND counting the administration on the index the exposure check read
Respond_CountsCheckedIndex ==
    /\ pc = "respond"
    /\ idLists' = [idLists EXCEPT ![Len(idLists)] = Append(@, selected_item)]
    /\ IF selected_item = None
       THEN /\ pc' = "error"
            /\ UNCHANGED <<acertou, response_vector, administered_items,
                           items_exp>>
       ELSE /\ acertou' \in BOOLEAN
            /\ response_vector' = Append(response_vector, acertou')
            /\ administered_items' = Append(administered_items, selected_item)
            /\ items_exp' = [items_exp EXCEPT ![counter] = @ + 1]
            /\ pc' = "reestimate"
    /\ UNCHANGED <<inputs, reest_call, v, e, q, est_theta, selected_item, counter,
                   selected_item_cluster, localResults, globalResults>>

\* lines 76-90: RESPOND; items[None][1] raises after the append of line 76
Respond ==
    /\ pc = "respond"
    /\ idLists' = [idLists EXCEPT ![Len(idLists)] = Append(@, selected_item)]
    /\ IF selected_item = None
       THEN /\ pc' = "error"
            /\ UNCHANGED <<acertou, response_vector, administered_items,
                           items_exp>>
       ELSE /\ acertou' \in BOOLEAN
            /\ response_vector' = Append(response_vector, acertou')
            /\ administered_items' = Append(administered_items, selected_item)
            /\ items_exp' = [items_exp EXCEPT ![selected_item] = @ + 1]
            /\ pc' = "reestimate"
    /\ UNCHANGED <<inputs, reest_call, v, e, q, est_theta, selected_item, counter,
                   selected_item_cluster, localResults, globalResults>>

\* lines 95-104: REESTIMATE
Reestimate ==
    /\ pc = "reestimate"
    /\ IF Uniform(response_vector)
       THEN /\ reest_call' = [fn |-> "dodd", theta |-> est_theta,
                              correct |-> acertou]
            /\ est_theta' = dodd(est_theta, items_b, acertou)
       ELSE /\ reest_call' = [fn |-> "minimize", x0 |-> est_theta,
                              responses |-> response_vector,
                              rows |-> administered_items]
            /\ est_theta' \in MLEThetas
    /\ q' = q + 1
    /\ pc' = "select"
    /\ UNCHANGED <<inputs, items_exp, v, e, administered_items,
                   response_vector, selected_item, counter,
                   selected_item_cluster, acertou, idLists, localResults,
                   globalResults>>

Next ==
    \/ StartCap
    \/ Return
    \/ StartExaminee
    \/ EmitAggregate
    \/ Scan
    \/ EmitRecord
    \/ ExposureCheck
    \/ \E random_item \in Bank : Sample(random_item)
    \/ Respond
    \/ Reestimate

Spec == Init /\ [][Next]_vars

\* one examinee, one cap, and a test one round longer than those of Init, on
\* a bank that has an item with information > 0 left for every round
LongInit ==
    /\ bank_size = MaxItens + 1
    /\ items_a = [i \in 0 .. (bank_size - 1) |-> 2]
    /\ items_b \in [0 .. (bank_size - 1) -> BValues]
    /\ items_exp = [i \in 0 .. (bank_size - 1) |-> 0]
    /\ clusters \in [0 .. (bank_size - 1) -> 0 .. (MaxCluster - 1)]
    /\ \A i \in 0 .. (bank_size - 1) : \A c \in 0 .. (clusters[i] - 1) :
           \E j \in 0 .. (i - 1) : clusters[j] = c
    /\ examinees = 1 /\ n_itens = MaxItens + 1 /\ r_max_interval = 1
    /\ true_thetas \in [1 .. examinees -> TrueThetas]
    /\ v = 0 /\ e = 0 /\ q = 0
    /\ est_theta = 0
    /\ administered_items = <<>>
    /\ response_vector = <<>>
    /\ selected_item = None
    /\ counter = None
    /\ selected_item_cluster = None
    /\ acertou = FALSE
    /\ idLists = <<>>
    /\ localResults = <<>>
    /\ globalResults = <<>>
    /\ reest_call = [fn |-> "none"]
    /\ pc = "cap"

LongSpec == LongInit /\ [][Next]_vars

\* dodd() on its own: a call of lines 126-152 on any bank, any ability of a
\* grid that reaches beyond the difficulties, and either response
DoddThetas == {k * Unit : k \in (0 - MaxAbsTheta) .. MaxAbsTheta}

DoddInit ==
    /\ bank_size \in 1 .. MaxBank
    /\ items_a = [i \in 0 .. (bank_size - 1) |-> 1]
    /\ items_b \in [0 .. (bank_size - 1) -> BValues]
    /\ items_exp = [i \in 0 .. (bank_size - 1) |-> 0]
    /\ clusters = [i \in 0 .. (bank_size - 1) |-> 0]
    /\ examinees = 1 /\ n_itens = 1 /\ r_max_interval = 1
    /\ true_thetas = [x \in 1 .. 1 |-> 0]
    /\ v = 0 /\ e = 0 /\ q = 0
    /\ est_theta \in DoddThetas
    /\ administered_items = <<>>
    /\ response_vector = <<>>
    /\ selected_item = None
    /\ counter = None
    /\ selected_item_cluster = None
    /\ acertou \in BOOLEAN
    /\ idLists = <<>>
    /\ localResults = <<>>
    /\ globalResults = <<>>
    /\ reest_call = [fn |-> "none"]
    /\ pc = "dodd"

DoddApply ==
    /\ pc = "dodd"
    /\ est_theta' = dodd(est_theta, items_b, acertou)
    /\ pc' = "dodd_done"
    /\ UNCHANGED <<inputs, reest_call, items_exp, v, e, q, administered_items,
                   response_vector, selected_item, counter,
                   selected_item_cluster, acertou, idLists, localResults,
                   globalResults>>

DoddNext == DoddApply

DoddSpec == DoddInit /\ [][DoddNext]_vars

\* the run is sequential and the sampler is fair: a step that can change
\* the state is eventually taken
FairSpec == Spec /\ WF_vars(Next)

\* ------------------------------------------------------------ properties
NoDup(s) == \A j, k \in 1 .. Len(s) : j # k => s[j] # s[k]

Count(x, s) == Cardinality({k \in 1 .. Len(s) : s[k] = x})

\* the bank indices the substitution loop can adopt for a pick
Substitutes(pick, adm) ==
    IF pick = None THEN {}
    ELSE {i \in Bank : clusters[i] = clusters[pick] /\ ~InSeq(i, adm)}

\* the substitution branch of the exposure check was taken in this round
\* (items_exp, counter and v do not change between the check and line 90)
TookSubstitution == EntersSubstitution(items_exp[counter], r_max)

\* C1: for a bank at least as large as the test, no index occurs twice in
\* administered_items, and the selection about to be administered is not in it
C1_AdministeredOnce ==
    bank_size >= n_itens =>
        /\ NoDup(administered_items)
        /\ (pc = "respond" /\ selected_item # None)
               => ~InSeq(selected_item, administered_items)

C1_Witness ==
    /\ bank_size >= n_itens
    /\ Len(administered_items) = 2
    /\ TookSubstitution

\* C2: when the pass over all examinees of a cap r is complete, every item
\* was administered to a fraction of the examinees of at most r + 1/bank_size
C2_ExposureCapRespected ==
    (pc = "examinee" /\ e >= examinees) =>
        \A i \in Bank :
            Count(i, id_itens) * r_max[2] * bank_size
                <= (r_max[1] * bank_size + r_max[2]) * examinees

\* C3: when the processing of a cap starts, every exposure counter is zero
C3_CountersResetPerCap ==
    (pc = "examinee" /\ e = 0) => \A i \in Bank : items_exp[i] = 0

\* the unadministered index of greatest information, lowest index on ties
MaxInfPick(theta, adm) ==
    CHOOSE i \in Bank :
        /\ ~InSeq(i, adm)
        /\ \A j \in Bank : ~InSeq(j, adm) =>
              \/ inf(theta, items_a[j], items_b[j])
                    < inf(theta, items_a[i], items_b[i])
              \/ /\ inf(theta, items_a[j], items_b[j])
                       = inf(theta, items_a[i], items_b[i])
                 /\ i <= j

\* C4: the scan selects the unadministered index of greatest information at
\* the current estimate, the lowest such index on ties
C4_MaxInformationPick ==
    (pc = "check" /\ \E i \in Bank : ~InSeq(i, administered_items)) =>
        selected_item = MaxInfPick(est_theta, administered_items)

\* C5: when the checked exposure count is 0 or bank_size / count >= r_max,
\* the pick of the scan is administered as it is, without any sampling
C5_CheckAcceptsPick ==
    [][(/\ pc = "check"
        /\ \/ items_exp[counter] = 0
           \/ bank_size * r_max[2] >= r_max[1] * items_exp[counter])
       => (pc' = "respond" /\ selected_item' = selected_item)]_vars

\* C6: a step of the substitution loop either rejects the sample and leaves
\* everything as it is, or adopts an index that is not in administered_items
\* and lies in the cluster looked up at line 64, which is the cluster of the
\* scan's pick
C6_SubstitutionResult ==
    [][pc = "sample" =>
          /\ selected_item # None => selected_item_cluster = clusters[selected_item]
          /\ \/ UNCHANGED vars
             \/ /\ pc' = "respond"
                /\ clusters[selected_item'] = selected_item_cluster
                /\ ~InSeq(selected_item', administered_items)]_vars

C6_Witness ==
    /\ pc = "respond"
    /\ TookSubstitution
    /\ ScanPick(est_theta, administered_items) # None
    /\ selected_item # ScanPick(est_theta, administered_items)

\* C7: a substitution loop entered while some index of the pick's cluster is
\* not administered yet is eventually left, and the round reaches RESPOND
C7_SubstitutionTerminates ==
    (pc = "sample" /\ Substitutes(selected_item, administered_items) # {})
        ~> (pc = "respond")

C7_Witness ==
    /\ pc = "respond"
    /\ TookSubstitution
    /\ Cardinality(Substitutes(selected_item, administered_items)) = 1
    /\ Cardinality({i \in Bank : clusters[i] = clusters[selected_item]}) > 1

\* C8: the run is never inside the substitution loop with no index left
\* that is in the looked-up cluster and unadministered: where none exists the
\* run has failed instead of sampling
C8_ExhaustedSubstitutionFails ==
    pc = "sample" =>
        \E i \in Bank :
            clusters[i] = selected_item_cluster /\ ~InSeq(i, administered_items)

\* C9: rounds run SELECT, RESPOND, REESTIMATE in this order, a Simulation
\* Record is emitted after exactly n_itens rounds of an examinee, an
\* Aggregate Record after all examinees of a cap and before the next cap, and
\* a run that returns holds caps x examinees Simulation Records and one
\* Aggregate Record per cap, each with 'Qtd. Itens' = n_itens
C9_DriverStateMachine ==
    [][/\ (pc = "select" /\ pc' = "check") => q < n_itens
       /\ pc = "check" => pc' \in {"check", "sample", "respond", "error"}
       /\ pc = "sample" => pc' \in {"sample", "respond"}
       /\ pc = "respond" => pc' \in {"respond", "reestimate", "error"}
       /\ pc = "reestimate" =>
             \/ pc' = "reestimate"
             \/ (pc' = "select" /\ q' = q + 1
                    /\ Len(response_vector) = q' /\ Len(administered_items) = q')
       /\ localResults' # localResults =>
             /\ localResults' = Append(localResults, localResults'[Len(localResults')])
             /\ q = n_itens /\ Len(response_vector) = n_itens
             /\ Len(localResults') = v * examinees + e'
       /\ globalResults' # globalResults =>
             /\ globalResults' = Append(globalResults, globalResults'[Len(globalResults')])
             /\ Len(localResults) = (v + 1) * examinees
             /\ Len(globalResults') = v'
       /\ (pc = "cap" /\ pc' = "examinee") =>
             /\ Len(globalResults) = v
             /\ Len(localResults) = v * examinees
       /\ pc' = "done" =>
             /\ Len(localResults') = r_max_interval * examinees
             /\ Len(globalResults') = r_max_interval
             /\ \A k \in 1 .. Len(globalResults') :
                    globalResults'[k].QtdItens = n_itens]_vars

C9_Witness ==
    /\ pc = "done"
    /\ r_max_interval >= 2 /\ examinees >= 2
    /\ Len(localResults) = r_max_interval * examinees
    /\ Len(globalResults) = r_max_interval

\* C10: every Simulation Record returned lists exactly n_itens indices, all
\* distinct: the items administered to its own examinee
C10_RecordListsOwnItems ==
    pc = "done" =>
        \A k \in 1 .. Len(localResults) :
            /\ Len(IdItensOf(localResults[k])) = n_itens
            /\ NoDup(IdItensOf(localResults[k]))

\* C11: once a Simulation Record is in localResults, its true ability, its
\* estimate, the list its 'Id. Itens' entry reads as, and its cap keep their
\* values in every later step
C11_RecordsFrozen ==
    [][\A k \in 1 .. Len(localResults) :
          /\ k <= Len(localResults')
          /\ localResults'[k].Theta = localResults[k].Theta
          /\ localResults'[k].EstTheta = localResults[k].EstTheta
          /\ localResults'[k].r_max = localResults[k].r_max
          /\ idLists'[localResults'[k].IdItens] = idLists[localResults[k].IdItens]]_vars

\* no two unadministered items have the same information at the estimate
NoTies(theta, adm) ==
    \A i, j \in Bank :
        (i # j /\ ~InSeq(i, adm) /\ ~InSeq(j, adm)) =>
            inf(theta, items_a[i], items_b[i]) # inf(theta, items_a[j], items_b[j])

\* C12: in a round whose checked exposure count is 0 or has
\* bank_size / count >= r_max, and without ties in information, the estimate,
\* the administered set, the counters and the cap leave one index only that
\* the round can select, whatever the random source draws
C12_SelectorDeterminism ==
    (/\ pc = "sample"
     /\ \/ items_exp[counter] = 0
        \/ bank_size * r_max[2] >= r_max[1] * items_exp[counter]
     /\ NoTies(est_theta, administered_items)) =>
        \A i, j \in Bank :
            (/\ AcceptsSample(i, selected_item_cluster, administered_items)
             /\ AcceptsSample(j, selected_item_cluster, administered_items))
                => i = j

\* C13: a re-estimation calls dodd on the current estimate and the latest
\* response exactly when the responses so far are all correct or all
\* incorrect; otherwise it calls the minimizer seeded at the current estimate
\* with the responses and the rows of the items administered so far
C13_ReestimationDispatch ==
    [][pc = "reestimate" =>
          \/ UNCHANGED vars
          \/ IF \/ \A k \in 1 .. Len(response_vector) : response_vector[k]
                \/ \A k \in 1 .. Len(response_vector) : ~response_vector[k]
             THEN reest_call' = [fn |-> "dodd", theta |-> est_theta,
                                 correct |-> response_vector[Len(response_vector)]]
             ELSE reest_call' = [fn |-> "minimize", x0 |-> est_theta,
                                 responses |-> response_vector,
                                 rows |-> administered_items]]_vars

C13_Witness ==
    /\ pc = "select"
    /\ reest_call.fn = "minimize"
    /\ Len(reest_call.responses) = 2
    /\ reest_call.responses[1] # reest_call.responses[2]
    /\ reest_call.rows = administered_items

\* the greatest and the least difficulty of the whole bank
BMaxOfBank == CHOOSE x \in {items_b[i] : i \in Bank} : \A j \in Bank : items_b[j] <= x
BMinOfBank == CHOOSE x \in {items_b[i] : i \in Bank} : \A j \in Bank : items_b[j] >= x

\* C14: dodd returns theta + (b_max - theta)/2 for a correct and
\* theta - (theta - b_min)/2 for an incorrect response, b_max and b_min taken
\* over the whole bank, without clamping; with b_max = 3, b_min = -2 and
\* theta = 0 that is 1.5 and -1.0
C14_DoddUpdate ==
    [][pc = "dodd" =>
          \/ UNCHANGED vars
          \/ /\ IF acertou
                THEN 2 * (est_theta' - est_theta) = BMaxOfBank - est_theta
                ELSE 2 * (est_theta - est_theta') = est_theta - BMinOfBank
             /\ (est_theta = 0 /\ BMaxOfBank = 3 * Unit
                     /\ BMinOfBank = (0 - 2) * Unit) =>
                    IF acertou THEN 2 * est_theta' = 3 * Unit
                    ELSE est_theta' = 0 - Unit]_vars

C14_Witness ==
    /\ pc = "dodd_done"
    /\ acertou
    /\ BMaxOfBank = 3 * Unit /\ BMinOfBank = (0 - 2) * Unit
    /\ 2 * est_theta = 3 * Unit

\* how often index i was administered during the pass of the k-th cap
PassCount(k, i) == Count(i, idLists[k])

\* C15: the 'Overlap' of the k-th Aggregate Record is
\* (bank_size/test_length) * Var(c) + test_length/bank_size for the counts c of
\* the k-th pass, Var the population variance: as fractions over
\* test_length * bank_size, with bank_size^2 * Var(c) = N * sum c^2 - (sum c)^2
C15_OverlapOfThePass ==
    \A k \in 1 .. Len(globalResults) :
        LET c == [i \in Bank |-> PassCount(k, i)]
            sum == SumOver(c, Bank)
            sumsq == SumOver([i \in Bank |-> c[i] * c[i]], Bank)
        IN globalResults[k].Overlap[1] * (n_itens * bank_size)
               = globalResults[k].Overlap[2]
                   * (bank_size * sumsq - sum * sum + n_itens * n_itens)

\* C16: after the scan the selection is a bank index that is not administered
\* yet, also when no unadministered item has information > 0; it is never None
\* where the cluster, the item row or the counter is looked up with it
C16_SelectionAlwaysDefined ==
    /\ (pc = "check" /\ \E i \in Bank : ~InSeq(i, administered_items)) =>
           (selected_item \in Bank /\ ~InSeq(selected_item, administered_items))
    /\ pc \in {"sample", "respond"} => selected_item # None

\* C17: the step that completes a round's selection appends the selected index
\* to administered_items and adds exactly 1 to its exposure counter, whichever
\* branch of the exposure check chose it; no other step and no other counter
\* changes, and the a and b columns never change
C17_SelectionEffect ==
    [][/\ (pc = "respond" /\ pc' = "reestimate") =>
             /\ administered_items' = Append(administered_items, selected_item)
             /\ \A i \in Bank :
                    items_exp'[i] = items_exp[i] + (IF i = selected_item THEN 1 ELSE 0)
       /\ ~(pc = "respond" /\ pc' = "reestimate") => items_exp' = items_exp
       /\ items_a' = items_a /\ items_b' = items_b]_vars

C17_Witness ==
    /\ pc = "reestimate"
    /\ selected_item # counter
    /\ items_exp[selected_item] = 2
    /\ administered_items[Len(administered_items)] = selected_item

\* C18: the exposure check reads the counter of the item the scan selected
C18_CheckReadsSelectedCounter ==
    (pc = "check" /\ selected_item # None) => counter = selected_item

\* C19: the first re-estimation of a test calls dodd, and a re-estimation
\* that follows a call of the minimizer in the same test calls the minimizer
C19_NoDoddAfterMLE ==
    [][pc = "reestimate" =>
          \/ UNCHANGED vars
          \/ /\ q = 0 => reest_call'.fn = "dodd"
             /\ (q >= 1 /\ reest_call.fn = "minimize")
                    => reest_call'.fn = "minimize"]_vars

C19_Witness ==
    /\ pc = "select"
    /\ q >= 3
    /\ reest_call.fn = "minimize"
    /\ Len(reest_call.responses) = 3
    /\ reest_call.responses[1] # reest_call.responses[2]
    /\ reest_call.responses[2] = reest_call.responses[3]

====
